---- MODULE Spec2Model ----
(***************************************************************************)
(* ResQLink: a disaster-relief request intake service.                     *)
(*                                                                         *)
(* The repository holds two independent persistence layers:                *)
(*   - app.py: the Flask facade.  `from database import db` is shadowed by *)
(*     `db = SQLAlchemy(app)` (app.py:7,17), so every route works on the   *)
(*     ORM table `help_request` (model HelpRequest, app.py:20-42).         *)
(*   - database.py: class Database, raw sqlite3 on the tables              *)
(*     help_requests, region_alerts, emergency_contacts.                   *)
(* Both are modelled, each with its own table.                             *)
(***************************************************************************)
EXTENDS Integers, Sequences, FiniteSets, TLC

VARIABLES
    help_request,        \* ORM table of app.py (rows of HelpRequest)
    help_requests,       \* sqlite table help_requests of database.py
    sqlite_sequence,     \* AUTOINCREMENT counter of help_requests
    district_not_null,   \* TRUE: help_requests was created by init_db
    emergency_contacts,  \* sqlite table emergency_contacts
    region_alerts,       \* sqlite table region_alerts
    now,                 \* the UTC clock, in ticks
    tz_offset,           \* local time minus UTC, in ticks
    last                 \* the most recent call and what it returned

vars == << help_request, help_requests, sqlite_sequence, district_not_null,
           emergency_contacts, region_alerts, now, tz_offset, last >>

----------------------------------------------------------------------------
(* Bounds of the model *)

\* state-changing events explored: rows inserted (all tables together) plus
\* clock advances
MaxEvents == 2
\* resolution of the clock: ticks per second (timestamps carry microseconds,
\* sqlite's datetime() keeps whole seconds)
TicksPerSecond == 2

\* the length of sqlite's '1 days' modifier, in seconds
SecondsPerDay == 86400

\* a clock advance is one tick or one day
ClockSteps == { 1, SecondsPerDay * TicksPerSecond }

----------------------------------------------------------------------------
(* JSON / Python values: a tagged record per value *)

Absent == [t |-> "absent", s |-> "", i |-> 0]
Null == [t |-> "null", s |-> "", i |-> 0]
Str(x) == [t |-> "str", s |-> x, i |-> 0]
Num(n) == [t |-> "int", s |-> "", i |-> n]

\* dict.get(key, default)
DictGet(d, k, default) == IF d[k].t = "absent" THEN default ELSE d[k]

\* Python truthiness, as `not data.get(field)` and `if category:` use it
Truthy(v) ==
    CASE v.t = "str" -> v.s # ""
      [] v.t = "int" -> v.i # 0
      [] OTHER -> FALSE

\* the decimal literals among the strings of the model
DecimalValue(s) ==
    CASE s = "0" -> 0
      [] s = "1" -> 1
      [] s = "2" -> 2
      [] s = "3" -> 3
      [] OTHER -> -1

IsDecimal(s) == s \in {"0", "1", "2", "3"}

\* int(x): an int is kept, a decimal string is parsed, anything else raises
\* (ValueError for a non-numeric string, TypeError for None)
PyIntRaises(v) ==
    CASE v.t = "int" -> FALSE
      [] v.t = "str" -> ~IsDecimal(v.s)
      [] OTHER -> TRUE

PyInt(v) == IF v.t = "int" THEN v.i ELSE DecimalValue(v.s)

RequiredFields == {"name", "contact", "location", "category", "description"}

\* the first required field, in the order of the list, that is missing
FieldOrder == << "name", "contact", "location", "category", "description" >>

MissingFieldsAbsentOnly(data) ==
    { k \in 1..Len(FieldOrder) : data[FieldOrder[k]].t = "absent" }
MissingFields(data) ==
    { k \in 1..Len(FieldOrder) : ~Truthy(DictGet(data, FieldOrder[k], Null)) }

FirstMissing(data) ==
    FieldOrder[CHOOSE k \in MissingFields(data) :
                   \A j \in MissingFields(data) : k <= j]

----------------------------------------------------------------------------
(* Inputs *)

Categories == {"medical", "flood"}

BaseBody ==
    [name |-> Str("A"), contact |-> Str("123"), location |-> Str("X"),
     category |-> Str("medical"), description |-> Str("d"),
     people_affected |-> Absent, status |-> Absent]

EmptyBody ==
    [name |-> Absent, contact |-> Absent, location |-> Absent,
     category |-> Absent, description |-> Absent,
     people_affected |-> Absent, status |-> Absent]

\* bodies with one required field absent or empty, and the empty body
DefectiveBodies ==
    { [BaseBody EXCEPT ![f] = Absent] : f \in RequiredFields }
        \cup { [BaseBody EXCEPT !.contact = Str("")], EmptyBody }

\* bodies of POST /api/submit with every required field: either category,
\* people_affected absent, "0" (a decimal string) or "many"
FacadeBodies ==
    { [BaseBody EXCEPT !.category = Str(c)] : c \in Categories }
        \cup { [BaseBody EXCEPT !.people_affected = p] :
                   p \in {Str("0"), Str("many")} }
        \cup DefectiveBodies

\* request_data of Database.add_request with every required field: either
\* category, people_affected absent or 0, status absent or "resolved"
StoreBodies ==
    { [BaseBody EXCEPT !.category = Str(c)] : c \in Categories }
        \cup { [BaseBody EXCEPT !.people_affected = Num(0)],
               [BaseBody EXCEPT !.category = Str("flood"),
                                !.status = Str("resolved")] }
        \cup DefectiveBodies

\* status values a caller of update_request_status may pass
StatusArgs == {"pending", "resolved", "in_progress"}

\* filters of get_requests / get_all_requests: None, "", or a value
CategoryFilters == {Null, Str(""), Str("medical")}
StatusFilters == {Null, Str("resolved")}

\* `days` of cleanup_old_requests
DaysArgs == {0, 1}

\* ids a caller may name
IdArgs == 1..MaxEvents

----------------------------------------------------------------------------
(* Helpers on tables: a table is a set of rows, a row a record with an id *)

Ids(table) == { r.id : r \in table }

Max(S) == CHOOSE m \in S : \A x \in S : x <= m

RowWithId(table, id) == CHOOSE r \in table : r.id = id

\* ORDER BY timestamp DESC: every order of the rows that is non-increasing in
\* timestamp (the order among equal timestamps is not determined)
OrderedByTimestampDesc(rows) ==
    { seq \in [1..Cardinality(rows) -> rows] :
          /\ \A a, b \in 1..Cardinality(rows) : a # b => seq[a] # seq[b]
          /\ \A a, b \in 1..Cardinality(rows) :
                 a < b => seq[a].timestamp >= seq[b].timestamp }

----------------------------------------------------------------------------
(* The events explored so far, recovered from the state *)

DayTicks == SecondsPerDay * TicksPerSecond

\* clock advances made so far: whole days plus single ticks
ClockAdvances == (now \div DayTicks) + (now % DayTicks)

Events ==
    Cardinality(help_request) + sqlite_sequence
        + Cardinality(emergency_contacts) + Cardinality(region_alerts)
        + ClockAdvances

----------------------------------------------------------------------------
(* app.py: the HTTP facade, on the ORM table help_request *)

\* the rowid sqlite gives a new row of a table without AUTOINCREMENT
OrmNextId(table) == IF table = {} THEN 1 ELSE Max(Ids(table)) + 1

HelpRequest(id, data, people) ==
    [id |-> id, name |-> data.name.s, contact |-> data.contact.s,
     location |-> data.location.s, category |-> data.category.s,
     description |-> data.description.s, people_affected |-> people,
     status |-> "pending", timestamp |-> now]

\* POST /api/submit
submit_request(data) ==
    /\ Events < MaxEvents
    /\ UNCHANGED << help_requests, sqlite_sequence, district_not_null,
                    emergency_contacts, region_alerts, now, tz_offset >>
    /\ IF MissingFields(data) # {}
       THEN /\ last' = [op |-> "submit_request", body |-> data, code |-> 400,
                        error |-> FirstMissing(data), request_id |-> 0]
            /\ UNCHANGED help_request
       ELSE IF PyIntRaises(DictGet(data, "people_affected", Num(1)))
       THEN \* int() raises; except Exception: rollback, 500
            /\ last' = [op |-> "submit_request", body |-> data, code |-> 500,
                        error |-> "Internal server error", request_id |-> 0]
            /\ UNCHANGED help_request
       ELSE LET id == OrmNextId(help_request)
                people == PyInt(DictGet(data, "people_affected", Num(1)))
            IN /\ help_request' = help_request \cup {HelpRequest(id, data, people)}
               /\ last' = [op |-> "submit_request", body |-> data, code |-> 201,
                           error |-> "", request_id |-> id]

\* `if category: query.filter_by(category=...)`, `if status: ...`
FilterByCategoryOnly(r, category, status) ==
    Truthy(category) => r.category = category.s
FilterBy(r, category, status) ==
    /\ (Truthy(category) => r.category = category.s)
    /\ (Truthy(status) => r.status = status.s)

\* GET /api/get_requests?category=&status=
get_requests(category, status) ==
    /\ \E seq \in OrderedByTimestampDesc(
                      { r \in help_request : FilterBy(r, category, status) }) :
           last' = [op |-> "get_requests", category |-> category,
                    status |-> status, code |-> 200, requests |-> seq]
    /\ UNCHANGED << help_request, help_requests, sqlite_sequence,
                    district_not_null, emergency_contacts, region_alerts,
                    now, tz_offset >>

\* the row resolve_request writes back
ResolvedToggle(r) ==
    [r EXCEPT !.status = IF r.status = "resolved" THEN "pending" ELSE "resolved"]
ResolvedClosed(r) == [r EXCEPT !.status = "closed"]
Resolved(r) == [r EXCEPT !.status = "resolved"]

\* POST /api/resolve_request/<int:request_id>.  get_or_404 aborts with
\* NotFound inside the try block; `except Exception` catches it, rolls back
\* and answers 500.  `was` records the status found, "" when no row was.
resolve_request(request_id) ==
    /\ UNCHANGED << help_requests, sqlite_sequence, district_not_null,
                    emergency_contacts, region_alerts, now, tz_offset >>
    /\ IF request_id \notin Ids(help_request)
       THEN /\ last' = [op |-> "resolve_request", request_id |-> request_id,
                        code |-> 500, was |-> ""]
            /\ UNCHANGED help_request
       ELSE LET r == RowWithId(help_request, request_id)
            IN /\ help_request' = (help_request \ {r}) \cup {Resolved(r)}
               /\ last' = [op |-> "resolve_request", request_id |-> request_id,
                           code |-> 200, was |-> r.status]

\* GET /helpline/<int:request_id>: the facade's lookup by primary key.  Not
\* wrapped in try/except, so NotFound reaches the 404 handler.
helpline(request_id) ==
    /\ UNCHANGED << help_request, help_requests, sqlite_sequence,
                    district_not_null, emergency_contacts, region_alerts,
                    now, tz_offset >>
    /\ IF request_id \notin Ids(help_request)
       THEN last' = [op |-> "helpline", request_id |-> request_id, code |-> 404]
       ELSE last' = [op |-> "helpline", request_id |-> request_id, code |-> 200,
                     request |-> RowWithId(help_request, request_id)]

\* GET /api/regions/affected, GET /api/contacts/<district>/<state> and
\* POST /api/alerts call Database methods on `db`, which is the SQLAlchemy
\* object: AttributeError, caught, 500.
get_affected_regions_route ==
    /\ last' = [op |-> "get_affected_regions_route", code |-> 500]
    /\ UNCHANGED << help_request, help_requests, sqlite_sequence,
                    district_not_null, emergency_contacts, region_alerts,
                    now, tz_offset >>

get_regional_contacts ==
    /\ last' = [op |-> "get_regional_contacts", code |-> 500]
    /\ UNCHANGED << help_request, help_requests, sqlite_sequence,
                    district_not_null, emergency_contacts, region_alerts,
                    now, tz_offset >>

create_alert ==
    /\ last' = [op |-> "create_alert", code |-> 500]
    /\ UNCHANGED << help_request, help_requests, sqlite_sequence,
                    district_not_null, emergency_contacts, region_alerts,
                    now, tz_offset >>

----------------------------------------------------------------------------
(* database.py: class Database, on the sqlite tables *)

\* datetime(x) of sqlite: the time to whole seconds
SqliteDatetime(ticks) == ticks \div TicksPerSecond

\* datetime.now(): local wall-clock time
LocalNow == now + tz_offset

\* a column of INTEGER affinity stores a decimal string as an integer
IntegerAffinity(v) ==
    IF v.t = "str" /\ IsDecimal(v.s) THEN Num(DecimalValue(v.s)) ELSE v

\* the row add_request inserts; district and state are not among the
\* columns of the INSERT
InsertedRow(id, request_data) ==
    [id |-> id, name |-> request_data.name.s, contact |-> request_data.contact.s,
     location |-> request_data.location.s, district |-> Null, state |-> Null,
     category |-> request_data.category.s,
     description |-> request_data.description.s,
     people_affected |->
         IntegerAffinity(DictGet(request_data, "people_affected", Num(1))),
     status |-> DictGet(request_data, "status", Str("pending")).s,
     timestamp |-> LocalNow]

\* Database.add_request
add_request(request_data) ==
    /\ Events < MaxEvents
    /\ UNCHANGED << help_request, district_not_null, emergency_contacts,
                    region_alerts, now, tz_offset >>
    /\ IF MissingFields(request_data) # {}
       THEN /\ last' = [op |-> "add_request", request_data |-> request_data,
                        raised |-> "ValueError",
                        error |-> FirstMissing(request_data), ret |-> 0]
            /\ UNCHANGED << help_requests, sqlite_sequence >>
       ELSE IF district_not_null
       THEN \* NOT NULL constraint failed: help_requests.district
            /\ last' = [op |-> "add_request", request_data |-> request_data,
                        raised |-> "IntegrityError", error |-> "district",
                        ret |-> 0]
            /\ UNCHANGED << help_requests, sqlite_sequence >>
       ELSE LET id == sqlite_sequence + 1
            IN /\ help_requests' =
                      help_requests \cup {InsertedRow(id, request_data)}
               /\ sqlite_sequence' = id
               /\ last' = [op |-> "add_request", request_data |-> request_data,
                           raised |-> "", error |-> "", ret |-> id]

\* the WHERE clause get_all_requests builds
Matches(r, category, status) ==
    IF Truthy(category) \/ Truthy(status)
    THEN /\ (Truthy(category) => r.category = category.s)
         /\ (Truthy(status) => r.status = status.s)
    ELSE TRUE

\* the dictionary both read functions build from a row
RowDict(r) ==
    [id |-> r.id, name |-> r.name, contact |-> r.contact,
     location |-> r.location, category |-> r.category,
     description |-> r.description, people_affected |-> r.people_affected,
     status |-> r.status, timestamp |-> r.timestamp]

\* Database.get_all_requests
get_all_requests(category, status) ==
    /\ \E seq \in OrderedByTimestampDesc(
                      { RowDict(r) : r \in
                          { x \in help_requests : Matches(x, category, status) } }) :
           last' = [op |-> "get_all_requests", category |-> category,
                    status |-> status, ret |-> seq]
    /\ UNCHANGED << help_request, help_requests, sqlite_sequence,
                    district_not_null, emergency_contacts, region_alerts,
                    now, tz_offset >>

\* Database.get_request_by_id: the dictionary, or None
GetRequestById(table, request_id) ==
    IF request_id \in Ids(table)
    THEN [found |-> TRUE, row |-> RowDict(RowWithId(table, request_id))]
    ELSE [found |-> FALSE]

get_request_by_id(request_id) ==
    /\ last' = [op |-> "get_request_by_id", request_id |-> request_id,
                ret |-> GetRequestById(help_requests, request_id)]
    /\ UNCHANGED << help_request, help_requests, sqlite_sequence,
                    district_not_null, emergency_contacts, region_alerts,
                    now, tz_offset >>

\* UPDATE help_requests SET status = ? WHERE id = ?
UpdatedEveryRow(table, request_id, status) ==
    { [r EXCEPT !.status = status] : r \in table }
Updated(table, request_id, status) ==
    { IF r.id = request_id THEN [r EXCEPT !.status = status] ELSE r : r \in table }

\* cursor.rowcount: the rows the WHERE clause matched
RowCount(table, request_id) ==
    Cardinality({ r \in table : r.id = request_id })

\* Database.update_request_status.  `was` records the status found, "" when
\* no row was.
update_request_status(request_id, status) ==
    /\ help_requests' = Updated(help_requests, request_id, status)
    /\ last' = [op |-> "update_request_status", request_id |-> request_id,
                status |-> status,
                ret |-> (RowCount(help_requests, request_id) > 0),
                was |-> IF request_id \in Ids(help_requests)
                        THEN RowWithId(help_requests, request_id).status
                        ELSE ""]
    /\ UNCHANGED << help_request, sqlite_sequence, district_not_null,
                    emergency_contacts, region_alerts, now, tz_offset >>

\* DELETE ... WHERE datetime(timestamp) < datetime('now', '-<days> days'):
\* the stored timestamp is local time, 'now' is UTC
IsOld(r, days) ==
    SqliteDatetime(r.timestamp) < SqliteDatetime(now) - days * SecondsPerDay

\* Database.cleanup_old_requests
cleanup_old_requests(days) ==
    /\ help_requests' = { r \in help_requests : ~IsOld(r, days) }
    /\ last' = [op |-> "cleanup_old_requests", days |-> days]
    /\ UNCHANGED << help_request, sqlite_sequence, district_not_null,
                    emergency_contacts, region_alerts, now, tz_offset >>

Districts == {"Pune", "Nashik"}

\* Database.add_emergency_contact
add_emergency_contact(contact_data) ==
    /\ Events < MaxEvents
    /\ LET id == Cardinality(emergency_contacts) + 1
       IN /\ emergency_contacts' = emergency_contacts \cup
                 { [id |-> id, name |-> contact_data.name,
                    phone |-> contact_data.phone,
                    district |-> contact_data.district,
                    state |-> contact_data.state,
                    category |-> contact_data.category, is_active |-> 1] }
          /\ last' = [op |-> "add_emergency_contact", ret |-> id]
    /\ UNCHANGED << help_request, help_requests, sqlite_sequence,
                    district_not_null, region_alerts, now, tz_offset >>

\* Database.get_contacts_by_region
get_contacts_by_region(district, state) ==
    /\ last' = [op |-> "get_contacts_by_region", district |-> district,
                state |-> state,
                ret |-> { c \in emergency_contacts :
                            /\ c.district = district
                            /\ c.state = state
                            /\ c.is_active = 1 }]
    /\ UNCHANGED << help_request, help_requests, sqlite_sequence,
                    district_not_null, emergency_contacts, region_alerts,
                    now, tz_offset >>

\* Database.get_affected_regions: pending rows grouped by (district, state)
get_affected_regions ==
    /\ last' = [op |-> "get_affected_regions",
                ret |-> { [district |-> g[1], state |-> g[2],
                           request_count |-> Cardinality(
                               { r \in help_requests :
                                   /\ r.status = "pending"
                                   /\ << r.district, r.state >> = g }),
                           categories |->
                               { r.category : r \in
                                   { x \in help_requests :
                                       /\ x.status = "pending"
                                       /\ << x.district, x.state >> = g } }] :
                          g \in { << r.district, r.state >> : r \in
                                    { x \in help_requests :
                                        x.status = "pending" } } }]
    /\ UNCHANGED << help_request, help_requests, sqlite_sequence,
                    district_not_null, emergency_contacts, region_alerts,
                    now, tz_offset >>

\* Database.add_region_alert; timestamp defaults to CURRENT_TIMESTAMP (UTC,
\* whole seconds), status to 'active'
add_region_alert(alert_data) ==
    /\ Events < MaxEvents
    /\ LET id == Cardinality(region_alerts) + 1
       IN /\ region_alerts' = region_alerts \cup
                 { [id |-> id, district |-> alert_data.district,
                    state |-> alert_data.state,
                    alert_type |-> alert_data.alert_type,
                    severity |-> alert_data.severity,
                    description |-> alert_data.description,
                    timestamp |-> SqliteDatetime(now), status |-> "active"] }
          /\ last' = [op |-> "add_region_alert", ret |-> id]
    /\ UNCHANGED << help_request, help_requests, sqlite_sequence,
                    district_not_null, emergency_contacts, now, tz_offset >>

----------------------------------------------------------------------------
(* The environment: time passes *)

Tick(step) ==
    /\ Events < MaxEvents
    /\ now' = now + step
    /\ last' = [op |-> "tick"]
    /\ UNCHANGED << help_request, help_requests, sqlite_sequence,
                    district_not_null, emergency_contacts, region_alerts,
                    tz_offset >>

----------------------------------------------------------------------------
(* The specification *)

ContactInputs ==
    { [name |-> "Dr. K", phone |-> "100", district |-> "Pune",
       state |-> "MH", category |-> "medical"] }

AlertInputs ==
    { [district |-> "Pune", state |-> "MH", alert_type |-> "flood",
       severity |-> "high", description |-> "river rising"] }

\* local time minus UTC where the process may run: India (+5:30), UTC
TzOffsets == { 19800 * TicksPerSecond, 0 }

\* Database() on start: init_db creates the tables that do not exist.  A
\* help_requests table already in the database file is left as it is
\* (CREATE TABLE IF NOT EXISTS); district_not_null tells whether the table
\* carries the NOT NULL constraints of init_db's own CREATE TABLE.
Init ==
    /\ help_request = {}
    /\ help_requests = {}
    /\ sqlite_sequence = 0
    /\ district_not_null \in BOOLEAN
    /\ emergency_contacts = {}
    /\ region_alerts = {}
    /\ now = 0
    /\ tz_offset \in TzOffsets
    /\ last = [op |-> "init"]

Next ==
    \/ \E data \in FacadeBodies : submit_request(data)
    \/ \E c \in CategoryFilters, s \in StatusFilters : get_requests(c, s)
    \/ \E id \in IdArgs : resolve_request(id)
    \/ \E id \in IdArgs : helpline(id)
    \/ get_affected_regions_route
    \/ get_regional_contacts
    \/ create_alert
    \/ \E data \in StoreBodies : add_request(data)
    \/ \E c \in CategoryFilters, s \in StatusFilters : get_all_requests(c, s)
    \/ \E id \in IdArgs : get_request_by_id(id)
    \/ \E id \in IdArgs, s \in StatusArgs : update_request_status(id, s)
    \/ \E days \in DaysArgs : cleanup_old_requests(days)
    \/ \E c \in ContactInputs : add_emergency_contact(c)
    \/ \E d \in Districts : get_contacts_by_region(d, "MH")
    \/ get_affected_regions
    \/ \E a \in AlertInputs : add_region_alert(a)
    \/ \E step \in ClockSteps : Tick(step)

Spec == Init /\ [][Next]_vars

----------------------------------------------------------------------------
(* The claims *)

\* a body whose five required fields are all present and non-empty
AllRequiredPresent(data) ==
    \A f \in RequiredFields : data[f].t = "str" /\ data[f].s # ""

\* everything but the two tables of help requests and `last`
RestUnchanged ==
    UNCHANGED << sqlite_sequence, district_not_null, emergency_contacts,
                 region_alerts >>

Range(seq) == { seq[k] : k \in 1..Len(seq) }

\* C1: a submit whose five required fields are all present and non-empty
\* answers 201 with an id greater than every id an earlier successful submit
\* returned (the facade never deletes, so these are the ids in its table), and
\* a lookup of that id right afterwards finds the record, status pending.
C1_SubmitSucceeds ==
    [][ (last'.op = "submit_request" /\ AllRequiredPresent(last'.body)) =>
            /\ last'.code = 201
            /\ \A i \in Ids(help_request) : last'.request_id > i
            /\ last'.request_id \in Ids(help_request')
            /\ RowWithId(help_request', last'.request_id).status = "pending"
      ]_vars

\* C2: a submit (or add_request) with a required field absent or empty is
\* rejected, 400 (ValueError), and no table of help requests changes.
C2_MissingFieldRejected ==
    [][ /\ (last'.op = "submit_request" /\ ~AllRequiredPresent(last'.body)) =>
               /\ last'.code = 400
               /\ UNCHANGED << help_request, help_requests >>
        /\ (last'.op = "add_request"
                /\ ~AllRequiredPresent(last'.request_data)) =>
               /\ last'.raised = "ValueError"
               /\ UNCHANGED << help_request, help_requests >>
      ]_vars

\* C2's case: a submit was rejected with 400 while the table held a request
C2_Witness ==
    /\ last.op = "submit_request"
    /\ last.code = 400
    /\ ~AllRequiredPresent(last.body)
    /\ help_request # {}

\* C3: resolving an id that is not in the store answers 404 (False from
\* update_request_status) and leaves every request as it was.
C3_ResolveUnknownNotFound ==
    [][ /\ (last'.op = "resolve_request"
                /\ last'.request_id \notin Ids(help_request)) =>
               /\ last'.code = 404
               /\ UNCHANGED << help_request, help_requests >>
        /\ (last'.op = "update_request_status"
                /\ last'.request_id \notin Ids(help_requests)) =>
               /\ last'.ret = FALSE
               /\ UNCHANGED << help_request, help_requests >>
      ]_vars

\* C4: resolving a request that is already resolved reports success again and
\* changes nothing: the store is as the first resolve left it, the request
\* still resolved.
C4_ResolveIdempotent ==
    [][ /\ (/\ last'.op = "resolve_request"
            /\ last'.request_id \in Ids(help_request)
            /\ RowWithId(help_request, last'.request_id).status = "resolved") =>
               /\ last'.code = 200
               /\ RowWithId(help_request', last'.request_id).status = "resolved"
               /\ UNCHANGED << help_request, help_requests >>
               /\ RestUnchanged
        /\ (/\ last'.op = "update_request_status"
            /\ last'.status = "resolved"
            /\ last'.request_id \in Ids(help_requests)
            /\ RowWithId(help_requests, last'.request_id).status = "resolved") =>
               /\ last'.ret = TRUE
               /\ RowWithId(help_requests', last'.request_id).status = "resolved"
               /\ UNCHANGED << help_request, help_requests >>
               /\ RestUnchanged
      ]_vars

\* C4's case: a resolve of a request that was already resolved
C4_Witness ==
    /\ last.op = "resolve_request"
    /\ last.code = 200
    /\ last.was = "resolved"

\* the status rules of C5 on one table, between a state and its successor
StatusOneWay(before, after) ==
    /\ \A r \in after : r.status \in {"pending", "resolved"}
    /\ \A r \in after : r.id \notin Ids(before) => r.status = "pending"
    /\ \A r \in before, r2 \in after :
           (r.id = r2.id /\ r.status = "resolved") => r2.status = "resolved"

NotNone(v) == v.t # "null"
NonEmpty(v) == v.t = "str" /\ v.s # ""

\* the rows of `table` equal to every filter that is not None
ExpectedNotNone(table, category, status) ==
    { r \in table :
          /\ (NotNone(category) => r.category = category.s)
          /\ (NotNone(status) => r.status = status.s) }

\* the rows of `table` equal to every filter that is a non-empty string
ExpectedNonEmpty(table, category, status) ==
    { r \in table :
          /\ (NonEmpty(category) => r.category = category.s)
          /\ (NonEmpty(status) => r.status = status.s) }

\* C6 as stated: the query returns exactly the requests that equal every
\* filter that was supplied (anything but None).
C6_FilterExactSupplied ==
    [][ /\ last'.op = "get_requests" =>
               Range(last'.requests) =
                   ExpectedNotNone(help_request, last'.category, last'.status)
        /\ last'.op = "get_all_requests" =>
               Range(last'.ret) =
                   { RowDict(r) : r \in
                       ExpectedNotNone(help_requests, last'.category,
                                       last'.status) }
      ]_vars

\* C6 amended: the query returns exactly the requests that equal every filter
\* that is a non-empty string; an empty-string filter is ignored like None.
C6_FilterExactNonEmpty ==
    [][ /\ last'.op = "get_requests" =>
               Range(last'.requests) =
                   ExpectedNonEmpty(help_request, last'.category, last'.status)
        /\ last'.op = "get_all_requests" =>
               Range(last'.ret) =
                   { RowDict(r) : r \in
                       ExpectedNonEmpty(help_requests, last'.category,
                                        last'.status) }
      ]_vars

\* C6's case: both filters given, some request returned, some request left out
C6_Witness ==
    /\ last.op = "get_requests"
    /\ NonEmpty(last.category)
    /\ NonEmpty(last.status)
    /\ Len(last.requests) >= 1
    /\ Cardinality(help_request) > Len(last.requests)

\* the age of a stored request, in ticks: its timestamp is local time
Age(r) == now - (r.timestamp - tz_offset)

C8_AddRequestPersists ==
    [][ (/\ last'.op = "add_request"
         /\ district_not_null
         /\ AllRequiredPresent(last'.request_data)) =>
            /\ last'.raised = ""
            /\ \E r \in help_requests' :
                   /\ help_requests' = help_requests \cup {r}
                   /\ r \notin help_requests
                   /\ r.id = last'.ret
                   /\ (last'.request_data.people_affected = Absent =>
                           r.people_affected = Num(1))
                   /\ (last'.request_data.status = Absent =>
                           r.status = "pending")
      ]_vars

\* C9: every persisted request has an integer people_affected of at least 1.
C9_PeopleAtLeastOne ==
    /\ \A r \in help_request : r.people_affected >= 1
    /\ \A r \in help_requests :
           r.people_affected.t = "int" /\ r.people_affected.i >= 1

\* the frame of a status update of `id` on one table
OnlyStatusOf(before, after, id, status) ==
    /\ Ids(after) = Ids(before)
    /\ \A r \in before :
           IF r.id = id THEN [r EXCEPT !.status = status] \in after
                        ELSE r \in after

\* C10: update_request_status / resolve_request changes only the status of
\* the request with the given id and reports success exactly when there is
\* one; all else (other requests, other fields, other tables, the ids) stays.
C10_UpdateOnlyStatus ==
    [][ /\ last'.op = "update_request_status" =>
               /\ last'.ret = (last'.request_id \in Ids(help_requests))
               /\ OnlyStatusOf(help_requests, help_requests',
                               last'.request_id, last'.status)
               /\ UNCHANGED help_request
               /\ RestUnchanged
        /\ last'.op = "resolve_request" =>
               /\ (last'.code = 200) = (last'.request_id \in Ids(help_request))
               /\ OnlyStatusOf(help_request, help_request',
                               last'.request_id, "resolved")
               /\ UNCHANGED help_requests
               /\ RestUnchanged
      ]_vars

\* C10's case: a status update found its request, and another request exists
C10_Witness ==
    /\ last.op = "update_request_status"
    /\ last.ret = TRUE
    /\ last.was # last.status
    /\ Cardinality(help_requests) >= 2

====
